---- MODULE Spec2Model ----
(***************************************************************************)
(* Model of the per-match game engine of src/server.js: the match state    *)
(* built by initGame, the one-second scheduler tick and the handlers of    *)
(* the 'action' messages.  Player positions are 0-based as in the source   *)
(* (players[i] of the source is game.players[i + 1] here); a player's id   *)
(* is its 1-based roster position.                                         *)
(*                                                                         *)
(* The arrays nominatedPlayers, missionTeam and tieCandidates never hold a *)
(* name twice and are only read through includes, length and, for a single *)
(* nominee, element 0: they are kept as sets.  The object game.votes is    *)
(* kept as its map (ballot) and the order in which the candidate names     *)
(* first received a ballot (names), which is the key order of the tally.   *)
(* Ids and names are taken not to be canonical array indices, so that JS   *)
(* objects list their keys in insertion order.                             *)
(***************************************************************************)
EXTENDS Integers, Sequences, FiniteSets, TLC

VARIABLES game, timing, strays, rooms

vars == <<game, timing, strays, rooms>>

(* ---------------------------------------------------------------------- *)
(* Program constants                                                      *)
(* ---------------------------------------------------------------------- *)
\* the durations of the source, in ticks of one second
RealTiming == [discussion |-> 40, nomination |-> 80, tie |-> 30]

\* the durations in force in the explored match (see Init)
DISCUSSION_TIME == timing.discussion
NOMINATION_TIME == timing.nomination
TIE_TIME_PER_CANDIDATE == timing.tie
WIN_COUNT == 3
TWO_FAIL_MISSION == 4
TWO_FAIL_PLAYERS == 7

\* JS null / a missing key of an object
Null == "null"
NoKey == "absent"

MISSION_SIZES ==
    [n \in 5..9 |->
        CASE n = 5 -> <<2, 3, 2, 3, 3>>
          [] n = 6 -> <<2, 3, 4, 3, 4>>
          [] n = 7 -> <<2, 3, 3, 4, 4>>
          [] n = 8 -> <<3, 4, 5, 4, 5>>
          [] n = 9 -> <<3, 4, 4, 5, 5>>]

SPY_COUNTS == [n \in 5..9 |-> IF n <= 6 THEN 2 ELSE 3]

\* getMissionSizes without the special case of line 40
getMissionSizes_tableOnly(count) ==
    IF count \in DOMAIN MISSION_SIZES THEN MISSION_SIZES[count]
    ELSE MISSION_SIZES[5]

getMissionSizes(count) ==
    IF count = 7 THEN <<2, 3, 4, 3, 4>>
    ELSE IF count \in DOMAIN MISSION_SIZES THEN MISSION_SIZES[count]
    ELSE MISSION_SIZES[5]

\* the spy count without the table: the fallback of line 52 for every size
getSpyCount_fallback(count) == 2

getSpyCount(count) ==
    IF count \in DOMAIN SPY_COUNTS THEN SPY_COUNTS[count] ELSE 2

(* ---------------------------------------------------------------------- *)
(* Bounds of the model                                                    *)
(* ---------------------------------------------------------------------- *)
\* discussionTurnCount grows with every passTurn sent while the phase is
\* voting: passTurn is explored up to this many turns beyond the roster size
MaxExtraTurns == 2

\* how many passTurn messages the clients send outside roleReveal and the
\* two discussion phases (strays counts them); in those three phases the
\* turn count bounds them
MaxStrayPasses == 1

\* room.maxPlayers as the creator of the explored room set it (the value
\* comes with the createRoom message and is stored as it is)
MaxPlayers == 10

\* Durations of a match explored with a short clock: the second-by-second
\* countdown multiplies the states of every timed phase by its duration.
ShortDiscussion == 1
ShortNomination == 1
ShortTie == 1
ShortTiming ==
    [discussion |-> ShortDiscussion, nomination |-> ShortNomination,
     tie |-> ShortTie]

\* the room: display names by roster position; the creator (position 1) hosts
RoomNames == <<"ann", "bob", "cat", "dan", "eve">>
BigRoomNames == <<"ann", "bob", "cat", "dan", "eve", "fay", "gus", "hal">>
hostId == 1
Ghost == "zed"

\* the users who enter the room of the start of a match, in joining order
LobbyNames ==
    <<"ann", "bob", "cat", "dan", "eve", "fay", "gus", "hal", "ivy", "jon",
      "kim">>
MIN_PLAYERS == 5

\* the registry of rooms (line 21) of the specifications that follow one
\* match only: the Map is empty
NoRooms == <<>>

(* ---------------------------------------------------------------------- *)
(* Helpers for JS arrays and objects                                      *)
(* ---------------------------------------------------------------------- *)
Includes(seq, x) == \E i \in 1..Len(seq) : seq[i] = x

ToSet(seq) == {seq[i] : i \in 1..Len(seq)}

\* game.votes = {}
NoVotes(g) == [ballot |-> [i \in 1..Len(g.players) |-> NoKey], names |-> <<>>]

\* game.votes[id] = candidate, for an id without a ballot
CastVote(votes, id, candidate) ==
    [ballot |-> [votes.ballot EXCEPT ![id] = candidate],
     names |-> IF Includes(votes.names, candidate) THEN votes.names
               ELSE Append(votes.names, candidate)]

NumPlayers(g) == Len(g.players)

\* game.players.find(p => p.name === name): 1-based position of the first
\* player carrying the name, 0 when find returns undefined
FindByName(g, name) ==
    IF \E i \in 1..NumPlayers(g) : g.players[i].name = name
    THEN CHOOSE i \in 1..NumPlayers(g) :
            /\ g.players[i].name = name
            /\ \A j \in 1..(i - 1) : g.players[j].name # name
    ELSE 0

\* players.find(...) / players.indexOf(...) report 0 for undefined, so that
\* the 0-based index of the source is FindByName(g, name) - 1 (-1: not found)

\* game.players.forEach(p => p.isLeader = false)
ClearLeaders(g) ==
    [g EXCEPT !.players = [i \in DOMAIN @ |-> [@[i] EXCEPT !.isLeader = FALSE]]]

\* game.players.forEach(p => p.voted = false)
ClearVoted(g) ==
    [g EXCEPT !.players = [i \in DOMAIN @ |-> [@[i] EXCEPT !.voted = FALSE]]]

\* the outcome of a piece of handler code: the state it leaves behind and
\* whether it ended by throwing (a TypeError on a property of undefined)
Done(g) == [g |-> g, threw |-> FALSE]
Thrown(g) == [g |-> g, threw |-> TRUE]

(* ---------------------------------------------------------------------- *)
(* Game logic                                                             *)
(* ---------------------------------------------------------------------- *)
\* initGame for a roster with the given names, the set of roster positions
\* the shuffle picked as spies, and the 0-based leader position drawn
initGame(names, spies, leaderIdx) ==
    LET count == Len(names)
        SpyNumber(i) == Cardinality({j \in spies : j <= i})
        player(i) ==
            [id |-> i, name |-> names[i],
             role |-> IF i \in spies THEN "spy" ELSE "resistance",
             spyNumber |-> IF i \in spies THEN SpyNumber(i) ELSE 0,
             isLeader |-> (i = leaderIdx + 1),
             nominated |-> FALSE, voted |-> FALSE,
             missionVote |-> Null, confirmedRole |-> FALSE]
    IN  [players |-> [i \in 1..count |-> player(i)],
         phase |-> "roleReveal",
         currentMission |-> 1,
         missionSizes |-> getMissionSizes(count),
         successfulMissions |-> 0,
         failedMissions |-> 0,
         currentLeaderIndex |-> leaderIdx,
         currentPlayerIndex |-> leaderIdx,
         discussionTurnCount |-> 0,
         discussionTimeLeft |-> DISCUSSION_TIME,
         nominationTimeLeft |-> NOMINATION_TIME,
         tieTimeLeft |-> 0,
         nominatedPlayers |-> {},
         votes |-> [ballot |-> [i \in 1..count |-> NoKey], names |-> <<>>],
         missionTeam |-> {},
         missionVotes |-> [i \in 1..count |-> NoKey],
         missionResults |-> <<>>,
         tieCandidates |-> {},
         isTieBreakerVote |-> FALSE,
         gameOver |-> FALSE,
         winner |-> Null]

\* checkAllRolesConfirmed: the game after the call (unchanged when somebody
\* has not confirmed)
checkAllRolesConfirmed(g) ==
    IF \A i \in 1..NumPlayers(g) : g.players[i].confirmedRole
    THEN [g EXCEPT !.phase = "discussion",
                   !.discussionTimeLeft = DISCUSSION_TIME,
                   !.discussionTurnCount = 0,
                   !.currentPlayerIndex = g.currentLeaderIndex]
    ELSE g

\* finalizeDiscussion without the clearing of line 124
finalizeDiscussion_keepLeaders(g) ==
    LET candidates == g.nominatedPlayers
    IN  IF Cardinality(candidates) = 0
        THEN IF g.currentLeaderIndex + 1 \in 1..NumPlayers(g)
             THEN Done([g EXCEPT
                    !.players[g.currentLeaderIndex + 1].isLeader = TRUE,
                    !.phase = "leaderDiscussion",
                    !.discussionTimeLeft = DISCUSSION_TIME,
                    !.currentPlayerIndex = g.currentLeaderIndex,
                    !.discussionTurnCount = 0])
             ELSE Thrown(g)
        ELSE IF Cardinality(candidates) = 1
        THEN LET w == FindByName(g, CHOOSE c \in candidates : TRUE)
                 g1 == IF w # 0 THEN [g EXCEPT !.players[w].isLeader = TRUE]
                       ELSE g
             IN  Done([g1 EXCEPT
                    !.currentLeaderIndex = w - 1,
                    !.phase = "leaderDiscussion",
                    !.discussionTimeLeft = DISCUSSION_TIME,
                    !.currentPlayerIndex = w - 1,
                    !.discussionTurnCount = 0])
        ELSE Done(ClearVoted([g EXCEPT !.phase = "voting",
                                       !.votes = NoVotes(g)]))

finalizeDiscussion(g0) ==
    LET candidates == g0.nominatedPlayers
        g == ClearLeaders(g0)
    IN  IF Cardinality(candidates) = 0
        THEN IF g.currentLeaderIndex + 1 \in 1..NumPlayers(g)
             THEN Done([g EXCEPT
                    !.players[g.currentLeaderIndex + 1].isLeader = TRUE,
                    !.phase = "leaderDiscussion",
                    !.discussionTimeLeft = DISCUSSION_TIME,
                    !.currentPlayerIndex = g.currentLeaderIndex,
                    !.discussionTurnCount = 0])
             ELSE Thrown(g)   \* starter is undefined
        ELSE IF Cardinality(candidates) = 1
        THEN LET w == FindByName(g, CHOOSE c \in candidates : TRUE)
                 g1 == IF w # 0 THEN [g EXCEPT !.players[w].isLeader = TRUE]
                       ELSE g
             IN  Done([g1 EXCEPT
                    !.currentLeaderIndex = w - 1,
                    !.phase = "leaderDiscussion",
                    !.discussionTimeLeft = DISCUSSION_TIME,
                    !.currentPlayerIndex = w - 1,
                    !.discussionTurnCount = 0])
        ELSE Done(ClearVoted([g EXCEPT !.phase = "voting",
                                       !.votes = NoVotes(g)]))

\* The tally of processLeaderVote: counts[name] is the number of ballots
\* naming the candidate, and the keys of counts come in votes.names order.
VoteCount(votes, name) ==
    Cardinality({i \in DOMAIN votes.ballot : votes.ballot[i] = name})

MaxCount(votes) ==
    IF Len(votes.names) = 0 THEN 0
    ELSE LET cs == {VoteCount(votes, votes.names[k]) : k \in 1..Len(votes.names)}
         IN  CHOOSE c \in cs : \A d \in cs : d <= c

Winners(votes) ==
    SelectSeq(votes.names, LAMBDA n : VoteCount(votes, n) = MaxCount(votes))

\* game.votes[id]: NoKey (undefined) when that player has no ballot
VoteOf(votes, id) == votes.ballot[id]

\* the election that leaves the speaker's clock as the discussion left it
\* (without lines 181 and 204)
ElectLeader_staleClock(g0, name) ==
    LET g == ClearLeaders(g0)
        w == FindByName(g, name)
    IN  IF w = 0 THEN Thrown(g)
        ELSE Done([g EXCEPT
                !.players[w].isLeader = TRUE,
                !.currentLeaderIndex = w - 1,
                !.phase = "leaderDiscussion",
                !.currentPlayerIndex = w - 1,
                !.discussionTurnCount = 0,
                !.tieCandidates = {},
                !.isTieBreakerVote = FALSE])

\* lines 176-187 and 199-210: the named player becomes the leader
ElectLeader(g0, name) ==
    LET g == ClearLeaders(g0)
        w == FindByName(g, name)
    IN  IF w = 0 THEN Thrown(g)   \* leader is undefined
        ELSE Done([g EXCEPT
                !.players[w].isLeader = TRUE,
                !.currentLeaderIndex = w - 1,
                !.phase = "leaderDiscussion",
                !.discussionTimeLeft = DISCUSSION_TIME,
                !.currentPlayerIndex = w - 1,
                !.discussionTurnCount = 0,
                !.tieCandidates = {},
                !.isTieBreakerVote = FALSE])

\* the tally that gives a tie discussion the time of one candidate
processLeaderVote_flatTieTime(g) ==
    LET winners == Winners(g.votes)
        hasStarter == g.currentLeaderIndex + 1 \in 1..NumPlayers(g)
    IN  IF Len(winners) = 0 /\ Cardinality(g.tieCandidates) = 0
        THEN IF hasStarter
             THEN Done([g EXCEPT
                    !.players[g.currentLeaderIndex + 1].isLeader = TRUE,
                    !.phase = "leaderDiscussion",
                    !.discussionTimeLeft = DISCUSSION_TIME])
             ELSE Thrown(g)
        ELSE IF Len(winners) = 1
        THEN ElectLeader(g, winners[1])
        ELSE IF g.isTieBreakerVote
        THEN IF ~hasStarter THEN Thrown(g)   \* starter.id of undefined
             ELSE LET starterVote ==
                        VoteOf(g.votes, g.players[g.currentLeaderIndex + 1].id)
                      finalWinner ==
                        IF Includes(winners, starterVote) THEN starterVote
                        ELSE IF Len(winners) > 0 THEN winners[1] ELSE NoKey
                  IN  ElectLeader(g, finalWinner)
        ELSE Done([g EXCEPT
                !.tieCandidates = ToSet(winners),
                !.phase = "tieDiscussion",
                !.tieTimeLeft = TIE_TIME_PER_CANDIDATE,
                !.isTieBreakerVote = TRUE])

processLeaderVote(g) ==
    LET winners == Winners(g.votes)
        hasStarter == g.currentLeaderIndex + 1 \in 1..NumPlayers(g)
    IN  IF Len(winners) = 0 /\ Cardinality(g.tieCandidates) = 0
        THEN IF hasStarter
             THEN Done([g EXCEPT
                    !.players[g.currentLeaderIndex + 1].isLeader = TRUE,
                    !.phase = "leaderDiscussion",
                    !.discussionTimeLeft = DISCUSSION_TIME])
             ELSE Thrown(g)
        ELSE IF Len(winners) = 1
        THEN ElectLeader(g, winners[1])
        ELSE IF g.isTieBreakerVote
        THEN IF ~hasStarter THEN Thrown(g)   \* starter.id of undefined
             ELSE LET starterVote ==
                        VoteOf(g.votes, g.players[g.currentLeaderIndex + 1].id)
                      finalWinner ==
                        IF Includes(winners, starterVote) THEN starterVote
                        ELSE IF Len(winners) > 0 THEN winners[1] ELSE NoKey
                  IN  ElectLeader(g, finalWinner)
        ELSE Done([g EXCEPT
                !.tieCandidates = ToSet(winners),
                !.phase = "tieDiscussion",
                !.tieTimeLeft = TIE_TIME_PER_CANDIDATE * Len(winners),
                !.isTieBreakerVote = TRUE])

\* nextMission without the reset of the mission ballots (line 235)
nextMission_keepBallots(g) ==
    LET nextIdx == (g.currentLeaderIndex + 1) % NumPlayers(g)
    IN  [g EXCEPT
            !.currentMission = @ + 1,
            !.players = [i \in DOMAIN @ |->
                            [@[i] EXCEPT !.nominated = FALSE,
                                         !.voted = FALSE,
                                         !.missionVote = Null,
                                         !.isLeader = (i = nextIdx + 1)]],
            !.nominatedPlayers = {},
            !.votes = NoVotes(g),
            !.missionTeam = {},
            !.tieCandidates = {},
            !.isTieBreakerVote = FALSE,
            !.currentLeaderIndex = nextIdx,
            !.phase = "discussion",
            !.currentPlayerIndex = nextIdx,
            !.discussionTimeLeft = DISCUSSION_TIME,
            !.discussionTurnCount = 0]

nextMission(g) ==
    LET nextIdx == (g.currentLeaderIndex + 1) % NumPlayers(g)
    IN  [g EXCEPT
            !.currentMission = @ + 1,
            !.players = [i \in DOMAIN @ |->
                            [@[i] EXCEPT !.nominated = FALSE,
                                         !.voted = FALSE,
                                         !.missionVote = Null,
                                         !.isLeader = (i = nextIdx + 1)]],
            !.nominatedPlayers = {},
            !.votes = NoVotes(g),
            !.missionTeam = {},
            !.missionVotes = [i \in DOMAIN @ |-> NoKey],
            !.tieCandidates = {},
            !.isTieBreakerVote = FALSE,
            !.currentLeaderIndex = nextIdx,
            !.phase = "discussion",
            !.currentPlayerIndex = nextIdx,
            !.discussionTimeLeft = DISCUSSION_TIME,
            !.discussionTurnCount = 0]

(* ---------------------------------------------------------------------- *)
(* The scheduler tick (setInterval callback) for one room                 *)
(* ---------------------------------------------------------------------- *)
\* lines 288-302: the team selection ran out, the mission fails; the entry
\* of the log has no successCount (-1 here) and a note
TimeoutResult(g) ==
    [mission |-> g.currentMission, success |-> FALSE, failCount |-> 0,
     successCount |-> -1, note |-> "timeout"]

\* the timeout that leaves the match in missionResults whatever the count
timeoutMission_noAdvance(g) ==
    LET g1 == [g EXCEPT !.missionResults = Append(@, TimeoutResult(g)),
                        !.failedMissions = @ + 1]
    IN  IF g1.failedMissions >= WIN_COUNT
        THEN [g1 EXCEPT !.gameOver = TRUE, !.winner = "spy",
                        !.phase = "missionResults"]
        ELSE [g1 EXCEPT !.phase = "missionResults"]

\* the timeout without the test of the third failure
timeoutMission_neverEnds(g) ==
    nextMission([g EXCEPT !.missionResults = Append(@, TimeoutResult(g)),
                          !.failedMissions = @ + 1])

timeoutMission(g) ==
    LET g1 == [g EXCEPT !.missionResults = Append(@, TimeoutResult(g)),
                        !.failedMissions = @ + 1]
    IN  IF g1.failedMissions >= WIN_COUNT
        THEN [g1 EXCEPT !.gameOver = TRUE, !.winner = "spy",
                        !.phase = "missionResults"]
        ELSE nextMission(g1)

\* the result carries changed: whether the tick ends with a broadcast
tickRoom(g) ==
    IF g.gameOver THEN [g |-> g, threw |-> FALSE, changed |-> FALSE]
    ELSE IF g.phase \in {"discussion", "leaderDiscussion"}
    THEN IF g.discussionTimeLeft > 0
         THEN [g |-> [g EXCEPT !.discussionTimeLeft = @ - 1],
               threw |-> FALSE, changed |-> TRUE]
         ELSE LET g1 == [g EXCEPT !.discussionTurnCount = @ + 1]
              IN  IF g1.discussionTurnCount >= NumPlayers(g1)
                  THEN IF g1.phase = "leaderDiscussion"
                       THEN [g |-> [g1 EXCEPT
                                      !.phase = "missionTeamSelection",
                                      !.nominationTimeLeft = NOMINATION_TIME],
                             threw |-> FALSE, changed |-> TRUE]
                       ELSE LET r == finalizeDiscussion(g1)
                            IN  [g |-> r.g, threw |-> r.threw,
                                 changed |-> ~r.threw]
                  ELSE [g |-> [g1 EXCEPT
                                 !.currentPlayerIndex =
                                     (@ + 1) % NumPlayers(g1),
                                 !.discussionTimeLeft = DISCUSSION_TIME],
                        threw |-> FALSE, changed |-> TRUE]
    ELSE IF g.phase = "missionTeamSelection"
    THEN IF g.nominationTimeLeft > 0
         THEN [g |-> [g EXCEPT !.nominationTimeLeft = @ - 1],
               threw |-> FALSE, changed |-> TRUE]
         ELSE [g |-> timeoutMission(g), threw |-> FALSE, changed |-> TRUE]
    ELSE IF g.phase = "tieDiscussion"
    THEN IF g.tieTimeLeft > 0
         THEN [g |-> [g EXCEPT !.tieTimeLeft = @ - 1],
               threw |-> FALSE, changed |-> TRUE]
         ELSE [g |-> [ClearVoted(g) EXCEPT !.phase = "voting",
                                            !.votes = NoVotes(g)],
               threw |-> FALSE, changed |-> TRUE]
    ELSE [g |-> g, threw |-> FALSE, changed |-> FALSE]

(* ---------------------------------------------------------------------- *)
(* Handlers of the 'action' messages; me is the roster position of the    *)
(* sender.  Each yields the state left behind and whether                 *)
(* broadcastGameState was called.                                         *)
(* ---------------------------------------------------------------------- *)
Reply(g, bc) == [g |-> g, sent |-> bc]

confirmRole(g, me) ==
    IF g.phase = "roleReveal"
    THEN Reply(checkAllRolesConfirmed(
                 [g EXCEPT !.players[me].confirmedRole = TRUE]), TRUE)
    ELSE Reply(g, FALSE)

passTurn(g, me) ==
    IF g.currentPlayerIndex + 1 \notin 1..NumPlayers(g)
    THEN Reply(g, FALSE)   \* players[currentPlayerIndex] is undefined: throws
    ELSE LET isCurrent == g.players[g.currentPlayerIndex + 1].id = me
             isHost == hostId = me
         IN  IF ~(isCurrent \/ isHost) THEN Reply(g, FALSE)
             ELSE LET g1 == [g EXCEPT !.discussionTimeLeft = 0,
                                      !.discussionTurnCount = @ + 1]
                  IN  IF g1.discussionTurnCount >= NumPlayers(g1)
                      THEN IF g1.phase = "leaderDiscussion"
                           THEN Reply([g1 EXCEPT
                                   !.phase = "missionTeamSelection",
                                   !.nominationTimeLeft = NOMINATION_TIME],
                                 TRUE)
                           ELSE LET r == finalizeDiscussion(g1)
                                IN  Reply(r.g, ~r.threw)
                      ELSE Reply([g1 EXCEPT
                              !.currentPlayerIndex = (@ + 1) % NumPlayers(g1),
                              !.discussionTimeLeft = DISCUSSION_TIME], TRUE)

nominate(g, me, target) ==
    IF g.phase \in {"discussion", "nomination"}
    THEN LET p == FindByName(g, target)
             on == target \notin g.nominatedPlayers
             g1 == [g EXCEPT !.nominatedPlayers =
                        IF on THEN @ \cup {target} ELSE @ \ {target}]
         IN  Reply(IF p # 0 THEN [g1 EXCEPT !.players[p].nominated = on]
                   ELSE g1, TRUE)
    ELSE Reply(g, FALSE)

\* voteForLeader without the tie candidate check of line 535
voteForLeader_anyCandidate(g, me, candidate) ==
    IF g.phase = "voting" /\ ~g.players[me].voted
    THEN LET g1 == [g EXCEPT
                   !.players[me].voted = TRUE,
                   !.votes = CastVote(@, g.players[me].id, candidate)]
             allVoted == \A i \in 1..NumPlayers(g1) : g1.players[i].voted
         IN  IF allVoted
             THEN LET r == processLeaderVote(g1)
                  IN  Reply(r.g, ~r.threw)
             ELSE Reply(g1, TRUE)
    ELSE Reply(g, FALSE)

voteForLeader(g, me, candidate) ==
    IF g.phase = "voting" /\ ~g.players[me].voted
    THEN IF Cardinality(g.tieCandidates) > 0 /\ candidate \notin g.tieCandidates
         THEN Reply(g, FALSE)
         ELSE LET g1 == [g EXCEPT
                        !.players[me].voted = TRUE,
                        !.votes = CastVote(@, g.players[me].id, candidate)]
                  allVoted == \A i \in 1..NumPlayers(g1) : g1.players[i].voted
              IN  IF allVoted
                  THEN LET r == processLeaderVote(g1)
                       IN  Reply(r.g, ~r.threw)
                  ELSE Reply(g1, TRUE)
    ELSE Reply(g, FALSE)

\* game.missionSizes[game.currentMission - 1]; -1 stands for undefined, with
\* which every comparison of a length is false
MissionSize(g) ==
    IF g.currentMission \in 1..Len(g.missionSizes)
    THEN g.missionSizes[g.currentMission] ELSE -1

\* toggleTeamMember without the size test of line 555
toggleTeamMember_noCap(g, me, target) ==
    IF g.phase = "missionTeamSelection" /\ g.players[me].isLeader
    THEN IF target \in g.missionTeam
         THEN Reply([g EXCEPT !.missionTeam = @ \ {target}], TRUE)
         ELSE Reply([g EXCEPT !.missionTeam = @ \cup {target}], TRUE)
    ELSE Reply(g, FALSE)

toggleTeamMember(g, me, target) ==
    IF g.phase = "missionTeamSelection" /\ g.players[me].isLeader
    THEN LET size == MissionSize(g)
         IN  IF target \in g.missionTeam
             THEN Reply([g EXCEPT !.missionTeam = @ \ {target}], TRUE)
             ELSE IF size # -1 /\ Cardinality(g.missionTeam) < size
             THEN Reply([g EXCEPT !.missionTeam = @ \cup {target}], TRUE)
             ELSE Reply(g, TRUE)
    ELSE Reply(g, FALSE)

\* approveTeam without the test me.isLeader of line 563
approveTeam_anyone(g, me) ==
    IF g.phase = "missionTeamSelection"
       /\ Cardinality(g.missionTeam) = MissionSize(g)
    THEN Reply([g EXCEPT !.phase = "missionVoting"], TRUE)
    ELSE Reply(g, FALSE)

approveTeam(g, me) ==
    IF g.phase = "missionTeamSelection" /\ g.players[me].isLeader
       /\ Cardinality(g.missionTeam) = MissionSize(g)
    THEN Reply([g EXCEPT !.phase = "missionVoting"], TRUE)
    ELSE Reply(g, FALSE)

\* Object.keys(game.missionVotes).length
VotesCast(g) == Cardinality({i \in DOMAIN g.missionVotes : g.missionVotes[i] # NoKey})

\* the failCount loop over Object.values(game.missionVotes)
FailCount(g) == Cardinality({i \in DOMAIN g.missionVotes : g.missionVotes[i] = "fail"})

\* the rule applied to the third mission instead of the fourth
needsTwoFails_mission3(g) ==
    NumPlayers(g) >= TWO_FAIL_PLAYERS /\ g.currentMission = 3

\* lines 592-597
needsTwoFails(g) ==
    NumPlayers(g) >= TWO_FAIL_PLAYERS /\ g.currentMission = TWO_FAIL_MISSION

isSuccess(g) ==
    IF needsTwoFails(g) THEN FailCount(g) < 2 ELSE FailCount(g) = 0

\* the resolution that never ends the match
resolveMission_noGameOver(g) ==
    LET teamSize == Cardinality(g.missionTeam)
        ok == isSuccess(g)
    IN  [g EXCEPT
            !.missionResults = Append(@,
                [mission |-> g.currentMission, success |-> ok,
                 failCount |-> FailCount(g),
                 successCount |-> teamSize - FailCount(g),
                 note |-> ""]),
            !.successfulMissions = IF ok THEN @ + 1 ELSE @,
            !.failedMissions = IF ok THEN @ ELSE @ + 1,
            !.phase = "missionResults"]

\* lines 585-618: the last ballot is in, the mission is resolved
resolveMission(g) ==
    LET teamSize == Cardinality(g.missionTeam)
        ok == isSuccess(g)
        g1 == [g EXCEPT
                 !.missionResults = Append(@,
                     [mission |-> g.currentMission, success |-> ok,
                      failCount |-> FailCount(g),
                      successCount |-> teamSize - FailCount(g),
                      note |-> ""]),
                 !.successfulMissions = IF ok THEN @ + 1 ELSE @,
                 !.failedMissions = IF ok THEN @ ELSE @ + 1]
        g2 == IF g1.successfulMissions >= WIN_COUNT
              THEN [g1 EXCEPT !.gameOver = TRUE, !.winner = "resistance"]
              ELSE IF g1.failedMissions >= WIN_COUNT
              THEN [g1 EXCEPT !.gameOver = TRUE, !.winner = "spy"]
              ELSE g1
    IN  [g2 EXCEPT !.phase = "missionResults"]

\* voteForMission without the check of line 577
voteForMission_anyBallot(g, me, vote) ==
    IF /\ g.phase = "missionVoting"
       /\ g.players[me].name \in g.missionTeam
       /\ g.players[me].missionVote = Null
    THEN LET g1 == [g EXCEPT !.players[me].missionVote = vote,
                             !.missionVotes[g.players[me].id] = vote]
         IN  IF VotesCast(g1) = Cardinality(g1.missionTeam)
             THEN Reply(resolveMission(g1), TRUE)
             ELSE Reply(g1, TRUE)
    ELSE Reply(g, FALSE)

\* voteForMission without the test me.missionVote === null of line 575
voteForMission_revote(g, me, vote) ==
    IF /\ g.phase = "missionVoting"
       /\ g.players[me].name \in g.missionTeam
    THEN IF g.players[me].role = "resistance" /\ vote = "fail"
         THEN Reply(g, FALSE)
         ELSE LET g1 == [g EXCEPT !.players[me].missionVote = vote,
                                  !.missionVotes[g.players[me].id] = vote]
              IN  IF VotesCast(g1) = Cardinality(g1.missionTeam)
                  THEN Reply(resolveMission(g1), TRUE)
                  ELSE Reply(g1, TRUE)
    ELSE Reply(g, FALSE)

voteForMission(g, me, vote) ==
    IF /\ g.phase = "missionVoting"
       /\ g.players[me].name \in g.missionTeam
       /\ g.players[me].missionVote = Null
    THEN IF g.players[me].role = "resistance" /\ vote = "fail"
         THEN Reply(g, FALSE)
         ELSE LET g1 == [g EXCEPT !.players[me].missionVote = vote,
                                  !.missionVotes[g.players[me].id] = vote]
              IN  IF VotesCast(g1) = Cardinality(g1.missionTeam)
                  THEN Reply(resolveMission(g1), TRUE)
                  ELSE Reply(g1, TRUE)
    ELSE Reply(g, FALSE)

\* the nextMission action without the gameOver test of line 627
nextMissionAction_afterGameOver(g, me) ==
    IF g.phase = "missionResults"
    THEN Reply(nextMission(g), TRUE)
    ELSE Reply(g, FALSE)

nextMissionAction(g, me) ==
    IF g.phase = "missionResults" /\ ~g.gameOver
    THEN Reply(nextMission(g), TRUE)
    ELSE Reply(g, FALSE)

(* ---------------------------------------------------------------------- *)
(* broadcastGameState: the message built for one connected player.  The   *)
(* message is sent as JSON text, which spells out every field of the      *)
(* object: two messages are the same text iff they agree on every field.  *)
(* spies is a key of the message only for a spy (hasSpies), null is 0 for *)
(* spyNumber.                                                             *)
(* ---------------------------------------------------------------------- *)
\* line 357: the roster of the spies, in roster order
SpyRoster(g) ==
    LET entry(i) == [id |-> g.players[i].id, name |-> g.players[i].name,
                     spyNumber |-> g.players[i].spyNumber]
        all == [i \in 1..NumPlayers(g) |-> entry(i)]
        isSpy(e) == g.players[e.id].role = "spy"
    IN  SelectSeq(all, isSpy)

\* lines 364-367: every player but the viewer is masked
MaskedPlayers(g, viewer) ==
    [i \in DOMAIN g.players |->
        IF g.players[i].id = g.players[viewer].id THEN g.players[i]
        ELSE [g.players[i] EXCEPT !.role = "unknown", !.spyNumber = 0,
                                  !.missionVote = Null]]

\* the message that attaches the roster for every viewer
broadcastGameState_rosterToAll(g, viewer) ==
    [type |-> "game",
     game |-> [g EXCEPT !.players = MaskedPlayers(g, viewer)],
     you |-> g.players[viewer],
     hasSpies |-> TRUE,
     spies |-> SpyRoster(g)]

broadcastGameState(g, viewer) ==
    [type |-> "game",
     game |-> [g EXCEPT !.players = MaskedPlayers(g, viewer)],
     you |-> g.players[viewer],
     hasSpies |-> (g.players[viewer].role = "spy"),
     spies |-> IF g.players[viewer].role = "spy" THEN SpyRoster(g) ELSE <<>>]

(* ---------------------------------------------------------------------- *)
(* The state machine                                                      *)
(* ---------------------------------------------------------------------- *)
\* the senders of the action messages: the players of the match
Actors == DOMAIN game.players

Step(g) == game' = g /\ UNCHANGED <<timing, strays, rooms>>

Tick == Step(tickRoom(game).g)

ConfirmRole == \E me \in Actors : Step(confirmRole(game, me).g)

PassTurn ==
    /\ game.discussionTurnCount < NumPlayers(game) + MaxExtraTurns
    /\ \E me \in Actors : game' = passTurn(game, me).g
    /\ IF game.phase \in {"roleReveal", "discussion", "leaderDiscussion"}
       THEN strays' = strays
       ELSE strays < MaxStrayPasses /\ strays' = strays + 1
    /\ UNCHANGED <<timing, rooms>>

Nominate(targets) ==
    \E me \in Actors, t \in targets : Step(nominate(game, me, t).g)

VoteForLeader(candidates) ==
    \E me \in Actors, c \in candidates : Step(voteForLeader(game, me, c).g)

ToggleTeamMember(targets) ==
    \E me \in Actors, t \in targets : Step(toggleTeamMember(game, me, t).g)

ApproveTeam == \E me \in Actors : Step(approveTeam(game, me).g)

VoteForMission(ballots) ==
    \E me \in Actors, v \in ballots : Step(voteForMission(game, me, v).g)

NextMission == \E me \in Actors : Step(nextMissionAction(game, me).g)

\* the match after initGame and the confirmRole messages of the given players
Confirmed(g, who) ==
    [g EXCEPT !.players = [i \in DOMAIN @ |->
        [@[i] EXCEPT !.confirmedRole = (i \in who)]]]

\* Scripted prefixes of a match, computed with the handlers
RECURSIVE Passes(_, _)
Passes(g, k) ==
    IF k = 0 THEN g
    ELSE CHOOSE r \in {Passes(h, k - 1) : h \in {passTurn(g, hostId).g}} : TRUE

RECURSIVE Ticks(_, _)
Ticks(g, k) ==
    IF k = 0 THEN g
    ELSE CHOOSE r \in {Ticks(h, k - 1) : h \in {tickRoom(g).g}} : TRUE

\* from the start of a discussion without nominee to the start of the next
\* mission: every turn is passed, then the team selection runs out
TimedOutMission(g) ==
    CHOOSE r \in {Ticks(h, NOMINATION_TIME + 1) :
                    h \in {Passes(g, 2 * NumPlayers(g))}} : TRUE

(* A whole match, explored from the discussion of its first mission.      *)
(* Nobody is nominated, so that every election is settled by              *)
(* finalizeDiscussion with the starting leader.                           *)
MatchTeam == {RoomNames[1], RoomNames[2], RoomNames[3]}
MatchBallots == {"success", "fail"}

Init ==
    /\ timing = ShortTiming
    /\ strays = 0
    /\ rooms = NoRooms
    /\ game = checkAllRolesConfirmed(
                 Confirmed(initGame(RoomNames, {2, 4}, 3), DOMAIN RoomNames))

Next ==
    \/ Tick
    \/ PassTurn
    \/ ToggleTeamMember(MatchTeam)
    \/ ApproveTeam
    \/ VoteForMission(MatchBallots)
    \/ NextMission

Spec == Init /\ [][Next]_vars

(* The election of one mission: the clients nominate and vote, also for a *)
(* name that no player carries, and never select a team.  The match is    *)
(* taken up at the start of its third mission, the first two having ended *)
(* by the timeout of missionTeamSelection.                                *)
NomineeNames == {RoomNames[1], Ghost}
ElectionNames == {RoomNames[1], RoomNames[2], Ghost}

InitElection ==
    /\ timing = ShortTiming
    /\ strays = 0
    /\ rooms = NoRooms
    /\ \E g0 \in {checkAllRolesConfirmed(
                       Confirmed(initGame(RoomNames, {2, 4}, 1),
                                 DOMAIN RoomNames))} :
          \E g1 \in {TimedOutMission(g0)} : game = TimedOutMission(g1)

NextElection ==
    \/ Tick
    \/ PassTurn
    \/ Nominate(NomineeNames)
    \/ VoteForLeader(ElectionNames)

SpecElection == InitElection /\ [][NextElection]_vars

(* The election with the scheduling the program has and the players the   *)
(* rules expect: setInterval fires the tick every second, and in the      *)
(* voting phase the players go on sending voteForLeader as long as a      *)
(* ballot is accepted.                                                    *)
FairElection ==
    /\ SpecElection
    /\ WF_vars(Tick)
    /\ WF_vars(VoteForLeader(ElectionNames))

(* A match of eight players, for which the fourth mission needs two fail  *)
(* ballots.  The match is taken up at the start of its second mission,    *)
(* the first having timed out.  The leader picks among four players, two  *)
(* of them spies: the missions of five time out.                          *)
BigTeam == {BigRoomNames[1], BigRoomNames[2], BigRoomNames[3], BigRoomNames[4]}

InitBig ==
    /\ timing = ShortTiming
    /\ strays = 0
    /\ rooms = NoRooms
    /\ \E g0 \in {checkAllRolesConfirmed(
                       Confirmed(initGame(BigRoomNames, {2, 4, 7}, 3),
                                 DOMAIN BigRoomNames))} :
          game = TimedOutMission(g0)

NextBig ==
    \/ Tick
    \/ PassTurn
    \/ ToggleTeamMember(BigTeam)
    \/ ApproveTeam
    \/ VoteForMission(MatchBallots)
    \/ NextMission

SpecBig == InitBig /\ [][NextBig]_vars

(* The role reveal: the match right after initGame, nobody having         *)
(* confirmed, followed without nominee, team or ballot to its end.        *)
InitReveal ==
    /\ timing = ShortTiming
    /\ strays = 0
    /\ rooms = NoRooms
    /\ game = initGame(RoomNames, {2, 4}, 3)

NextReveal ==
    \/ Tick
    \/ ConfirmRole
    \/ PassTurn

SpecReveal == InitReveal /\ [][NextReveal]_vars

(* One mission with its election and its mission vote, from the           *)
(* discussion of the first mission, in which two players have been        *)
(* nominated, to the result of the mission.                               *)
RoundNominees == {RoomNames[1], RoomNames[2]}

InitRound ==
    /\ timing = ShortTiming
    /\ strays = 0
    /\ rooms = NoRooms
    /\ \E g0 \in {checkAllRolesConfirmed(
                       Confirmed(initGame(RoomNames, {2, 4}, 3),
                                 DOMAIN RoomNames))} :
          \E g1 \in {nominate(g0, 3, RoomNames[1]).g} :
             game = nominate(g1, 5, RoomNames[2]).g

NextRound ==
    \/ Tick
    \/ PassTurn
    \/ VoteForLeader(RoundNominees)
    \/ ToggleTeamMember(RoundNominees)
    \/ ApproveTeam
    \/ VoteForMission(MatchBallots)

SpecRound == InitRound /\ [][NextRound]_vars

(* The revote after a tie of five candidates.  In the first vote of the   *)
(* first mission every player has named somebody else, one of them a name *)
(* that no player carries: all five names tie.  The match is taken up at  *)
(* the start of the revote, in which the clients name three of the five.  *)
TieNames == {RoomNames[1], RoomNames[2], Ghost}

\* the ballots of the first vote, by roster position of the voter
FirstBallots == <<RoomNames[2], Ghost, RoomNames[1], RoomNames[3], RoomNames[4]>>

RECURSIVE Ballots(_, _)
Ballots(g, k) ==
    IF k = 0 THEN g
    ELSE CHOOSE r \in {voteForLeader(h, k, FirstBallots[k]).g :
                          h \in {Ballots(g, k - 1)}} : TRUE

InitTie ==
    /\ timing = ShortTiming
    /\ strays = 0
    /\ rooms = NoRooms
    /\ \E g0 \in {checkAllRolesConfirmed(
                       Confirmed(initGame(RoomNames, {2, 4}, 3),
                                 DOMAIN RoomNames))} :
          \E g1 \in {nominate(g0, 3, RoomNames[1]).g} :
             \E g2 \in {nominate(g1, 5, Ghost).g} :
                \E g3 \in {Passes(g2, NumPlayers(g2))} :
                   \E g4 \in {Ballots(g3, NumPlayers(g3))} :
                      game = Ticks(g4, g4.tieTimeLeft + 1)

NextTie ==
    \/ Tick
    \/ PassTurn
    \/ VoteForLeader(TieNames)

SpecTie == InitTie /\ [][NextTie]_vars

(* The start of a match.  Before startGame the room has no game: the      *)
(* state is the roster of the room (phase "lobby").  The host starts the  *)
(* match, and starts it anew, with whatever spies and leader the random   *)
(* draws of initGame pick.                                                *)
Lobby(names) ==
    [phase |-> "lobby",
     players |-> [i \in 1..Len(names) |-> [id |-> i, name |-> names[i]]]]

\* message joinRoom: one more user enters a room that is not full
JoinRoom ==
    /\ game.phase = "lobby"
    /\ NumPlayers(game) < MaxPlayers
    /\ game' = Lobby(SubSeq(LobbyNames, 1, NumPlayers(game) + 1))
    /\ UNCHANGED <<timing, strays, rooms>>

\* message startGame from the user me, lines 436-444: the state of the room
\* after it (an error message is all a room of fewer than five gets); spies
\* and leaderIdx are the random draws of initGame
startGame(g, me, spies, leaderIdx) ==
    IF g.players[me].id = hostId /\ NumPlayers(g) >= MIN_PLAYERS
    THEN initGame([i \in 1..NumPlayers(g) |-> g.players[i].name],
                  spies, leaderIdx)
    ELSE g

\* the draws of initGame: the first spyCount players of the shuffle are the
\* spies, the leader is drawn among all
SpyDraws(count) ==
    {S \in SUBSET (1..count) : Cardinality(S) = getSpyCount(count)}

StartGame ==
    /\ \E me \in Actors, spies \in SpyDraws(NumPlayers(game)),
          leaderIdx \in 0..(NumPlayers(game) - 1) :
             game' = startGame(game, me, spies, leaderIdx)
    /\ UNCHANGED <<timing, strays, rooms>>

InitStart ==
    /\ timing = RealTiming
    /\ strays = 0
    /\ rooms = NoRooms
    /\ game = Lobby(SubSeq(LobbyNames, 1, MIN_PLAYERS - 1))

NextStart ==
    \/ JoinRoom
    \/ StartGame

SpecStart == InitStart /\ [][NextStart]_vars

(* ---------------------------------------------------------------------- *)
(* The registry of rooms.  rooms maps the ids of the rooms in the Map to   *)
(* their records: players is room.players (the ids of the users in the    *)
(* room) and game is room.game, before startGame the roster in phase      *)
(* "lobby" as in SpecStart.  The Map is walked in insertion order,        *)
(* RoomOrder.  User ids are those of the roster of the room's match.      *)
(* ---------------------------------------------------------------------- *)
RoomOrder == <<"r1", "r2", "r3">>

\* the rooms of the Map in insertion order
Present(reg) == SelectSeq(RoomOrder, LAMBDA r : r \in DOMAIN reg)

\* line 259: the callback returns for a room without running match
NoGame(room) == room.game.phase = "lobby"

Skipped(room) == NoGame(room) \/ room.game.gameOver

\* the tick whose return at line 259 ends the walk through the Map
tickRooms_stopAtIdle(reg) ==
    LET order == Present(reg)
        Reached(k) == \A j \in 1..(k - 1) : ~Skipped(reg[order[j]])
    IN  [r \in DOMAIN reg |->
           LET k == CHOOSE i \in 1..Len(order) : order[i] = r
           IN  IF Skipped(reg[r]) \/ ~Reached(k) THEN reg[r]
               ELSE [reg[r] EXCEPT !.game = tickRoom(@).g]]

\* lines 258-318: rooms.forEach; an exception thrown for one room ends the
\* callback of setInterval, the rooms after it are not visited
tickRooms(reg) ==
    LET order == Present(reg)
        Throws(r) == ~Skipped(reg[r]) /\ tickRoom(reg[r].game).threw
        Reached(k) == \A j \in 1..(k - 1) : ~Throws(order[j])
    IN  [r \in DOMAIN reg |->
           LET k == CHOOSE i \in 1..Len(order) : order[i] = r
           IN  IF Skipped(reg[r]) \/ ~Reached(k) THEN reg[r]
               ELSE [reg[r] EXCEPT !.game = tickRoom(@).g]]

\* lines 446-462 and 640-649: the user u leaves the room r or closes the
\* connection; the room of the last user is deleted.  (The host is taken
\* to leave last, so that hostId stays what it is.)
leaveRoom(reg, r, u) ==
    IF r \notin DOMAIN reg THEN reg
    ELSE IF reg[r].players \ {u} = {}
    THEN [q \in DOMAIN reg \ {r} |-> reg[q]]
    ELSE [reg EXCEPT ![r].players = @ \ {u}]

\* lines 465-470 and 488-509: the message passTurn of the user u whose
\* room is r
passTurnIn(reg, r, u) ==
    IF r \notin DOMAIN reg THEN reg
    ELSE IF u \notin reg[r].players \/ NoGame(reg[r]) THEN reg
    ELSE IF u \notin DOMAIN reg[r].game.players THEN reg
    ELSE [reg EXCEPT ![r].game = passTurn(@, u).g]

TickRooms == rooms' = tickRooms(rooms) /\ UNCHANGED <<game, timing, strays>>

LeaveRoom ==
    /\ \E r \in DOMAIN rooms : \E u \in rooms[r].players :
          /\ u # hostId \/ rooms[r].players = {hostId}
          /\ rooms' = leaveRoom(rooms, r, u)
    /\ UNCHANGED <<game, timing, strays>>

PassTurnIn ==
    /\ \E r \in DOMAIN rooms : \E u \in rooms[r].players :
          /\ ~NoGame(rooms[r])
          /\ rooms[r].game.discussionTurnCount
                < NumPlayers(rooms[r].game) + MaxExtraTurns
          /\ rooms' = passTurnIn(rooms, r, u)
          /\ IF rooms[r].game.phase \in {"discussion", "leaderDiscussion"}
             THEN strays' = strays
             ELSE strays < MaxStrayPasses /\ strays' = strays + 1
    /\ UNCHANGED <<game, timing>>

(* Three rooms: two matches of five at the start of their third mission,  *)
(* the first two having timed out, and between them a room whose match    *)
(* has not been started.  Two users are left in each room of a match.     *)
InitRooms ==
    /\ timing = ShortTiming
    /\ strays = 0
    /\ game = Lobby(<<>>)
    /\ \E g0 \in {checkAllRolesConfirmed(
                       Confirmed(initGame(RoomNames, {2, 4}, 1),
                                 DOMAIN RoomNames))} :
          \E g1 \in {TimedOutMission(g0)} :
             \E g2 \in {TimedOutMission(g1)} :
                rooms = [r \in {"r1", "r2", "r3"} |->
                           IF r = "r2"
                           THEN [game |-> Lobby(SubSeq(RoomNames, 1, 1)),
                                 players |-> {hostId}]
                           ELSE [game |-> g2, players |-> {hostId, 2}]]

NextRooms ==
    \/ TickRooms
    \/ PassTurnIn
    \/ LeaveRoom

SpecRooms == InitRooms /\ [][NextRooms]_vars

(* ---------------------------------------------------------------------- *)
(* Properties                                                             *)
(* ---------------------------------------------------------------------- *)
Leaders(g) == {i \in DOMAIN g.players : g.players[i].isLeader}

LastResult(g) == g.missionResults[Len(g.missionResults)]

\* C1: once gameOver is set, no action of any player (passTurn by the host
\* or the current speaker included) and no tick changes any field of the
\* match state.
C1_FrozenAfterGameOver == [][game.gameOver => game' = game]_vars

\* C2: in phase missionVoting a voteForMission with vote 'fail' from a team
\* member whose role is resistance is rejected: the match state is left as
\* it was (missionVote null, no entry in missionVotes, same phase and
\* counters) and no broadcast is sent.
C2_ResistanceFailRejected ==
    \A me \in Actors :
        (/\ game.phase = "missionVoting"
         /\ game.players[me].name \in game.missionTeam
         /\ game.players[me].role = "resistance")
        => LET r == voteForMission(game, me, "fail")
           IN  /\ r.g = game
               /\ ~r.sent
               /\ game.players[me].missionVote \in {Null, "success"}
               /\ game.missionVotes[game.players[me].id] \in {NoKey, "success"}

\* a resistance player on the team of a running mission vote has no ballot
\* yet, while another member has voted
C2_Witness ==
    /\ game.phase = "missionVoting"
    /\ \E me \in Actors :
          /\ game.players[me].name \in game.missionTeam
          /\ game.players[me].role = "resistance"
          /\ game.players[me].missionVote = Null
          /\ game.missionVotes[me] = NoKey
    /\ VotesCast(game) > 0

Threshold(g) ==
    IF NumPlayers(g) >= 7 /\ g.currentMission = 4 THEN 2 ELSE 1

\* C4: when the last ballot resolves a mission, the recorded outcome is
\* success iff the number of fail ballots is below the threshold: 2 when the
\* match has 7 or more players and currentMission is 4, 1 in every other case.
C4_OutcomeByThreshold ==
    [][(game.phase = "missionVoting" /\ game'.phase = "missionResults")
       => LET fails == Cardinality({i \in Actors : game'.missionVotes[i] = "fail"})
              r == LastResult(game')
          IN  /\ Len(game'.missionResults) = Len(game.missionResults) + 1
              /\ r.mission = game.currentMission
              /\ r.failCount = fails
              /\ r.success = (fails < Threshold(game))
              /\ game'.successfulMissions =
                    game.successfulMissions + (IF r.success THEN 1 ELSE 0)
              /\ game'.failedMissions =
                    game.failedMissions + (IF r.success THEN 0 ELSE 1)]_vars

\* eight players, fourth mission, one fail among the four ballots: a success
C4_Witness ==
    /\ NumPlayers(game) = 8
    /\ game.phase = "missionResults"
    /\ game.missionResults # <<>>
    /\ LastResult(game).mission = 4
    /\ LastResult(game).failCount = 1
    /\ LastResult(game).successCount = 3
    /\ LastResult(game).success

\* C5: gameOver is true iff successfulMissions or failedMissions has reached
\* 3; winner is 'resistance' when successfulMissions reached 3, 'spy' when
\* failedMissions reached 3, and null while gameOver is false.
C5_WinnerMatchesCounters ==
    /\ game.gameOver <=>
          (game.successfulMissions >= WIN_COUNT \/ game.failedMissions >= WIN_COUNT)
    /\ game.successfulMissions >= WIN_COUNT => game.winner = "resistance"
    /\ game.failedMissions >= WIN_COUNT => game.winner = "spy"
    /\ ~game.gameOver => game.winner = Null

\* C6: once winner is set to a faction it never changes for the rest of the
\* match.
C6_WinnerNeverChanges ==
    [][game.winner # Null => game'.winner = game.winner]_vars

\* C7: successfulMissions <= 3 and failedMissions <= 3 in every reachable
\* state.
C7_CountersCapped ==
    game.successfulMissions <= WIN_COUNT /\ game.failedMissions <= WIN_COUNT

AllVoted(g) == \A i \in DOMAIN g.players : g.players[i].voted

Appended(g, h) == Len(h.missionResults) > Len(g.missionResults)

\* C10: after every mission outcome, the automatic failure on team-selection
\* timeout included, the phase is missionResults, and currentMission changes
\* only in a step that is an explicit nextMission action, never in a tick.
C10_AdvanceOnlyOnRequest ==
    [][/\ Appended(game, game') => game'.phase = "missionResults"
       /\ game'.currentMission # game.currentMission
          => (/\ game.phase = "missionResults"
              /\ ~game.gameOver
              /\ game' = nextMission(game))]_vars

\* C10 as amended: after an outcome decided by the ballots, and after the
\* timeout that is the third failure, the phase is missionResults and
\* currentMission is unchanged; a timeout that is not the third failure
\* starts the next mission in the same tick (phase discussion,
\* currentMission + 1).  currentMission changes only by 1, in a nextMission
\* action or in such a tick.
C10_AdvanceOnRequestOrTimeout ==
    [][LET timedOut == Appended(game, game') /\ LastResult(game').note = "timeout"
           auto == timedOut /\ game'.failedMissions < WIN_COUNT
       IN  /\ Appended(game, game') =>
                 IF auto
                 THEN /\ game'.phase = "discussion"
                      /\ game'.currentMission = game.currentMission + 1
                 ELSE /\ game'.phase = "missionResults"
                      /\ game'.currentMission = game.currentMission
           /\ timedOut =>
                 /\ game.phase = "missionTeamSelection"
                 /\ game.nominationTimeLeft = 0
                 /\ game'.failedMissions = game.failedMissions + 1
           /\ game'.currentMission # game.currentMission
              => \/ auto
                 \/ /\ game.phase = "missionResults"
                    /\ ~game.gameOver
                    /\ game' = nextMission(game)]_vars

\* a first mission that timed out has just been followed by the second
C10_Witness ==
    /\ game.phase = "discussion"
    /\ game.currentMission = 2
    /\ Len(game.missionResults) = 1
    /\ LastResult(game).note = "timeout"
    /\ LastResult(game).mission = 1
    /\ game.failedMissions = 1
    /\ game.discussionTurnCount = 0

\* C11: a nextMission action takes effect only when the phase is
\* missionResults and gameOver is false; sent after gameOver is set, or in
\* any other phase, it leaves the match state unchanged (currentMission is
\* not incremented) and nothing is broadcast.
C11_NextMissionOnlyAfterResults ==
    \A me \in Actors :
        LET r == nextMissionAction(game, me)
        IN  IF game.phase = "missionResults" /\ ~game.gameOver
            THEN /\ r.g.currentMission = game.currentMission + 1
                 /\ r.g.phase = "discussion"
            ELSE /\ r.g = game
                 /\ r.g.currentMission = game.currentMission
                 /\ ~r.sent

\* the match has been won by the ballots of a mission: the phase is
\* missionResults and gameOver is set
C11_Witness ==
    /\ game.gameOver
    /\ game.phase = "missionResults"
    /\ game.winner = "resistance"
    /\ game.successfulMissions = WIN_COUNT

\* C12: re-delivering a vote is idempotent: a voteForLeader from a player
\* whose voted flag is already true, and a voteForMission from a player
\* whose missionVote is already recorded, leave the match state unchanged
\* whatever candidate or vote value the repeated message carries.
C12_RevoteIgnored ==
    \A me \in Actors :
        /\ game.players[me].voted
              => \A c \in RoundNominees \cup {Ghost} :
                    voteForLeader(game, me, c) = Reply(game, FALSE)
        /\ game.players[me].missionVote # Null
              => \A v \in MatchBallots :
                    voteForMission(game, me, v) = Reply(game, FALSE)

\* after an election in which everybody voted, the spy on the team has
\* cast its ballot and the other member of the team has not
C12_Witness ==
    /\ game.phase = "missionVoting"
    /\ AllVoted(game)
    /\ game.missionTeam = RoundNominees
    /\ game.players[2].missionVote = "success"
    /\ game.missionVotes[2] = "success"
    /\ game.players[1].missionVote = Null

\* C13: every action submitted in a phase other than the one assigned to
\* its tag leaves the match state unchanged: confirmRole outside roleReveal,
\* passTurn outside discussion and leaderDiscussion, nominate outside
\* discussion, voteForLeader outside voting, toggleTeamMember and
\* approveTeam outside missionTeamSelection, voteForMission outside
\* missionVoting, nextMission outside missionResults.
C13_WrongPhaseRejected ==
    \A me \in Actors :
        /\ game.phase # "roleReveal" => confirmRole(game, me).g = game
        /\ game.phase \notin {"discussion", "leaderDiscussion"}
              => passTurn(game, me).g = game
        /\ game.phase # "discussion"
              => \A t \in NomineeNames : nominate(game, me, t).g = game
        /\ game.phase # "voting"
              => \A c \in ElectionNames : voteForLeader(game, me, c).g = game
        /\ game.phase # "missionTeamSelection"
              => /\ \A t \in MatchTeam : toggleTeamMember(game, me, t).g = game
                 /\ approveTeam(game, me).g = game
        /\ game.phase # "missionVoting"
              => \A v \in MatchBallots : voteForMission(game, me, v).g = game
        /\ game.phase # "missionResults"
              => nextMissionAction(game, me).g = game

\* the player at currentPlayerIndex, if there is one, is the sender
IsSpeaker(g, me) ==
    /\ g.currentPlayerIndex + 1 \in DOMAIN g.players
    /\ g.players[g.currentPlayerIndex + 1].id = g.players[me].id

\* C14: an action from a player who lacks the role it needs leaves the
\* match state unchanged and sends no broadcast: toggleTeamMember or
\* approveTeam from a player who is not the leader, passTurn from a player
\* who is neither the current speaker nor the room host, voteForMission from
\* a player who is not on the mission team.
C14_WrongRoleRejected ==
    \A me \in Actors :
        /\ ~game.players[me].isLeader
              => /\ \A t \in MatchTeam :
                       toggleTeamMember(game, me, t) = Reply(game, FALSE)
                 /\ approveTeam(game, me) = Reply(game, FALSE)
        /\ (~IsSpeaker(game, me) /\ game.players[me].id # hostId)
              => passTurn(game, me) = Reply(game, FALSE)
        /\ game.players[me].name \notin game.missionTeam
              => \A v \in MatchBallots :
                    voteForMission(game, me, v) = Reply(game, FALSE)

\* the leader of the second mission has picked a full team of three and
\* has not approved it
C14_Witness ==
    /\ game.phase = "missionTeamSelection"
    /\ game.currentMission = 2
    /\ game.missionTeam = MatchTeam
    /\ Cardinality(game.missionTeam) = MissionSize(game)
    /\ Leaders(game) = {5}
    /\ game.nominationTimeLeft = NOMINATION_TIME

\* C15: the phase leaves roleReveal only in a step after which every player
\* has confirmedRole = true, and the phase it enters is discussion with the
\* speaker equal to the leader, discussionTurnCount = 0 and the discussion
\* timer at its full duration; no other action or tick moves the match out
\* of roleReveal.
C15_RevealEndsByConfirmation ==
    [][(game.phase = "roleReveal" /\ game'.phase # "roleReveal")
       => /\ \A i \in Actors : game'.players[i].confirmedRole
          /\ game'.phase = "discussion"
          /\ game'.currentPlayerIndex = game'.currentLeaderIndex
          /\ game'.discussionTurnCount = 0
          /\ game'.discussionTimeLeft = DISCUSSION_TIME]_vars

\* C16: in every reachable state the number of names in missionTeam is at
\* most missionSizes[currentMission - 1].
C16_TeamWithinSize ==
    /\ game.currentMission \in 1..Len(game.missionSizes)
    /\ Cardinality(game.missionTeam) <= game.missionSizes[game.currentMission]

\* the team of the first mission, of size two, is full while the leader
\* may still toggle a third name
C16_Witness ==
    /\ game.phase = "missionTeamSelection"
    /\ game.currentMission = 1
    /\ game.missionSizes[game.currentMission] = 2
    /\ Cardinality(game.missionTeam) = 2
    /\ Cardinality(MatchTeam \ game.missionTeam) = 1

\* C17: in every reachable state 1 <= currentMission <= 5.
C17_MissionInRange ==
    game.currentMission >= 1 /\ game.currentMission <= 5

\* the fifth mission is being played
C17_Witness ==
    /\ game.currentMission = 5
    /\ game.phase = "missionVoting"
    /\ ~game.gameOver
    /\ game.successfulMissions = 2
    /\ game.failedMissions = 2

\* the state in which player i has cast the other ballot
FlipBallot(g, i) ==
    LET other == IF g.players[i].missionVote = "fail" THEN "success" ELSE "fail"
    IN  [g EXCEPT !.players[i].missionVote = other,
                  !.missionVotes[g.players[i].id] = other]

\* the state in which players i and j have each other's role and ordinal
SwapRoles(g, i, j) ==
    [g EXCEPT !.players[i].role = g.players[j].role,
              !.players[i].spyNumber = g.players[j].spyNumber,
              !.players[j].role = g.players[i].role,
              !.players[j].spyNumber = g.players[i].spyNumber]

\* C18: the view delivered to a resistance viewer is independent of the
\* hidden data of the other players: two match states that differ only in
\* other players' roles, spy ordinals or mission ballots (missionVote and
\* the missionVotes map) produce the same view.  The second state is the
\* one in which two other players have exchanged their roles, or in which
\* a spy on the team of the running mission vote has cast the other ballot.
C18_ViewHidesOthers ==
    \A viewer \in Actors :
        game.players[viewer].role = "resistance" =>
            /\ \A i, j \in Actors \ {viewer} :
                  broadcastGameState(SwapRoles(game, i, j), viewer)
                     = broadcastGameState(game, viewer)
            /\ \A i \in Actors \ {viewer} :
                  (/\ game.phase = "missionVoting"
                   /\ game.players[i].role = "spy"
                   /\ game.players[i].missionVote # Null)
                  => broadcastGameState(FlipBallot(game, i), viewer)
                        = broadcastGameState(game, viewer)

\* C19: in every delivered view the roster of the spies (id, name, ordinal
\* of every spy) is attached iff the viewer's own role is spy, and in the
\* players list every entry other than the viewer has role 'unknown' and
\* spyNumber null, also for a spy viewer.
C19_RosterOnlyForSpies ==
    \A viewer \in Actors :
        LET msg == broadcastGameState(game, viewer)
            spyIds == {i \in Actors : game.players[i].role = "spy"}
        IN  /\ msg.hasSpies <=> (game.players[viewer].role = "spy")
            /\ msg.hasSpies =>
                  ToSet(msg.spies) =
                     {[id |-> game.players[i].id, name |-> game.players[i].name,
                       spyNumber |-> game.players[i].spyNumber] : i \in spyIds}
            /\ ~msg.hasSpies => msg.spies = <<>>
            /\ \A i \in Actors \ {viewer} :
                  /\ msg.game.players[i].role = "unknown"
                  /\ msg.game.players[i].spyNumber = 0
            /\ msg.game.players[viewer] = game.players[viewer]

\* during a mission vote the spy bob receives the roster of both spies and
\* a masked dan, the resistance player ann receives no roster
C19_Witness ==
    /\ game.phase = "missionVoting"
    /\ broadcastGameState(game, 2).spies =
          <<[id |-> 2, name |-> "bob", spyNumber |-> 1],
            [id |-> 4, name |-> "dan", spyNumber |-> 2]>>
    /\ broadcastGameState(game, 2).game.players[4].role = "unknown"
    /\ broadcastGameState(game, 2).you.role = "spy"
    /\ ~broadcastGameState(game, 1).hasSpies

SpiesOf(g) == {i \in DOMAIN g.players : g.players[i].role = "spy"}

\* C20: after match start with n players, n in 5..9, the number of spies is
\* 2 for n = 5 or 6 and 3 for n = 7, 8 or 9, every other player is
\* resistance, and the spies' spyNumber values are exactly 1..spyCount,
\* assigned in increasing order of roster position.
C20_SpiesByRosterSize ==
    (game.phase # "lobby" /\ NumPlayers(game) \in 5..9) =>
        LET n == NumPlayers(game)
            spies == SpiesOf(game)
            spyCount == IF n \in {5, 6} THEN 2 ELSE 3
        IN  /\ Cardinality(spies) = spyCount
            /\ \A i \in Actors \ spies :
                  /\ game.players[i].role = "resistance"
                  /\ game.players[i].spyNumber = 0
            /\ {game.players[i].spyNumber : i \in spies} = 1..spyCount
            /\ \A i, j \in spies :
                  i < j => game.players[i].spyNumber < game.players[j].spyNumber

\* a match of nine players has started with the second, fifth and ninth
\* player as spies
C20_Witness ==
    /\ game.phase = "roleReveal"
    /\ NumPlayers(game) = 9
    /\ SpiesOf(game) = {2, 5, 9}
    /\ game.players[2].spyNumber = 1
    /\ game.players[5].spyNumber = 2
    /\ game.players[9].spyNumber = 3
    /\ game.players[1].role = "resistance"

\* C21: a match is started only when the requester is the room's host and
\* the roster size is between 5 and 9 inclusive; a start request with fewer
\* than 5 or more than 9 players in the room creates no match.
C21_StartNeedsHostAndSize ==
    \A me \in Actors :
        (game.players[me].id # hostId \/ NumPlayers(game) \notin 5..9)
        => \A spies \in SpyDraws(NumPlayers(game)) :
              startGame(game, me, spies, 0) = game

\* C22: missionSizes is fixed at match start from the roster size:
\* 5 -> [2,3,2,3,3], 6 -> [2,3,4,3,4], 7 -> [2,3,4,3,4], 8 -> [3,4,5,4,5],
\* 9 -> [3,4,4,5,5], any other size -> the 5-player table; it never changes
\* during the match (it has this value in every state of the match).
C22_SizesByRosterSize ==
    game.phase # "lobby" =>
        game.missionSizes =
            CASE NumPlayers(game) = 6 -> <<2, 3, 4, 3, 4>>
              [] NumPlayers(game) = 7 -> <<2, 3, 4, 3, 4>>
              [] NumPlayers(game) = 8 -> <<3, 4, 5, 4, 5>>
              [] NumPlayers(game) = 9 -> <<3, 4, 4, 5, 5>>
              [] OTHER -> <<2, 3, 2, 3, 3>>

\* a match of seven players has started
C22_Witness ==
    /\ game.phase = "roleReveal"
    /\ NumPlayers(game) = 7
    /\ game.missionSizes = <<2, 3, 4, 3, 4>>
    /\ game.currentMission = 1

\* the candidates holding the maximum number of ballots
TopNames(votes) ==
    LET named == {votes.ballot[i] : i \in DOMAIN votes.ballot} \ {NoKey}
        count(n) == Cardinality({i \in DOMAIN votes.ballot : votes.ballot[i] = n})
    IN  {n \in named : \A m \in named : count(m) <= count(n)}

\* the step in which the last player votes
LastVoteCast ==
    /\ game.phase = "voting"
    /\ ~AllVoted(game)
    /\ AllVoted(game')
    /\ game'.votes.ballot # game.votes.ballot

\* C23: when every player has voted and the maximum vote count is shared by
\* k >= 2 candidates for the first time in this election cycle, the tally
\* sets tieCandidates to exactly those k candidates, the phase to
\* tieDiscussion, tieTimeLeft to k times the time per candidate (30 s) and
\* isTieBreakerVote to true, and elects nobody.
C23_FirstTieOpensDiscussion ==
    [][(/\ LastVoteCast
        /\ ~game.isTieBreakerVote
        /\ Cardinality(TopNames(game'.votes)) >= 2)
       => /\ game'.tieCandidates = TopNames(game'.votes)
          /\ game'.phase = "tieDiscussion"
          /\ game'.tieTimeLeft =
                TIE_TIME_PER_CANDIDATE * Cardinality(TopNames(game'.votes))
          /\ game'.isTieBreakerVote
          /\ Leaders(game') = {}
          /\ game'.currentLeaderIndex = game.currentLeaderIndex]_vars

\* two candidates have tied in the first vote of five players
C23_Witness ==
    /\ game.phase = "tieDiscussion"
    /\ AllVoted(game)
    /\ game.tieCandidates = {RoomNames[1], Ghost}
    /\ TopNames(game.votes) = {RoomNames[1], Ghost}
    /\ game.tieTimeLeft = 2 * TIE_TIME_PER_CANDIDATE
    /\ game.isTieBreakerVote

\* C24: when tieTimeLeft is 0 at a tick in tieDiscussion, the phase becomes
\* voting with votes empty and every voted flag false while tieCandidates is
\* kept; in that revote a voteForLeader naming a candidate outside
\* tieCandidates is rejected with no state change, so every recorded ballot
\* names a tied candidate.
C24_RevoteAmongTied ==
    /\ (game.phase = "tieDiscussion" /\ game.tieTimeLeft = 0)
         => LET h == tickRoom(game).g
            IN  /\ h.phase = "voting"
                /\ h.votes = NoVotes(game)
                /\ \A i \in Actors : ~h.players[i].voted
                /\ h.tieCandidates = game.tieCandidates
                /\ Cardinality(h.tieCandidates) >= 2
    /\ (game.phase = "voting" /\ game.isTieBreakerVote)
         => /\ \A me \in Actors :
                  \A c \in ElectionNames \ game.tieCandidates :
                     voteForLeader(game, me, c) = Reply(game, FALSE)
            /\ \A i \in Actors :
                  game.votes.ballot[i] \in game.tieCandidates \cup {NoKey}

\* the revote between two tied candidates is under way: two ballots are in
C24_Witness ==
    /\ game.phase = "voting"
    /\ game.isTieBreakerVote
    /\ game.tieCandidates = {RoomNames[1], Ghost}
    /\ Cardinality({i \in Actors : game.players[i].voted}) = 2
    /\ {game.votes.ballot[i] : i \in Actors} = {RoomNames[1], Ghost, NoKey}

\* the candidate a second tie resolves to: the one named by the ballot of
\* the starting leader (the player at currentLeaderIndex) if it is among
\* the tied, otherwise the tied candidate that was first to get a ballot
TieResolution(g, votes) ==
    LET top == TopNames(votes)
        starterVote == votes.ballot[g.players[g.currentLeaderIndex + 1].id]
        first == CHOOSE k \in 1..Len(votes.names) :
                    /\ votes.names[k] \in top
                    /\ \A j \in 1..(k - 1) : votes.names[j] \notin top
    IN  IF starterVote \in top THEN starterVote ELSE votes.names[first]

\* C25: when the revote after a tie discussion ties again, the elected
\* leader is the tied candidate named by the starting leader's own ballot if
\* that ballot names a tied candidate, and otherwise the first tied
\* candidate in tally order; the result is then leaderDiscussion with
\* tieCandidates empty and isTieBreakerVote false.
C25_SecondTieResolved ==
    [][(/\ LastVoteCast
        /\ game.isTieBreakerVote
        /\ Cardinality(TopNames(game'.votes)) >= 2)
       => /\ \E i \in Actors :
                /\ game.players[i].name = TieResolution(game, game'.votes)
                /\ Leaders(game') = {i}
                /\ game'.currentLeaderIndex = i - 1
          /\ game'.phase = "leaderDiscussion"
          /\ game'.tieCandidates = {}
          /\ ~game'.isTieBreakerVote]_vars

\* C26: when every player has voted and exactly one candidate holds the
\* maximum vote count, that candidate is the only player with isLeader =
\* true, currentLeaderIndex and currentPlayerIndex both point at that
\* player, the phase is leaderDiscussion with discussionTurnCount = 0 and
\* the discussion timer at its full duration, and the tie state is cleared.
C26_SingleWinnerLeads ==
    [][(LastVoteCast /\ Cardinality(TopNames(game'.votes)) = 1)
       => /\ \E i \in Actors :
                /\ TopNames(game'.votes) = {game.players[i].name}
                /\ Leaders(game') = {i}
                /\ game'.currentLeaderIndex = i - 1
                /\ game'.currentPlayerIndex = i - 1
          /\ game'.phase = "leaderDiscussion"
          /\ game'.discussionTurnCount = 0
          /\ game'.discussionTimeLeft = DISCUSSION_TIME
          /\ game'.tieCandidates = {}
          /\ ~game'.isTieBreakerVote]_vars

\* C27: when nominationTimeLeft is 0 at a tick in missionTeamSelection, the
\* mission is recorded as failed with failCount 0 and no ballots,
\* failedMissions increases by exactly 1 and successfulMissions is
\* unchanged; if this is the third failure the match ends with winner 'spy'.
C27_TimeoutFailsMission ==
    (game.phase = "missionTeamSelection" /\ game.nominationTimeLeft = 0)
    => LET h == tickRoom(game).g
           r == LastResult(h)
       IN  /\ Len(h.missionResults) = Len(game.missionResults) + 1
           /\ SubSeq(h.missionResults, 1, Len(game.missionResults))
                 = game.missionResults
           /\ r.mission = game.currentMission
           /\ ~r.success
           /\ r.failCount = 0
           /\ r.successCount = -1
           /\ h.failedMissions = game.failedMissions + 1
           /\ h.successfulMissions = game.successfulMissions
           /\ h.failedMissions = WIN_COUNT
                 => (h.gameOver /\ h.winner = "spy"
                     /\ h.phase = "missionResults")
           /\ h.failedMissions < WIN_COUNT => (~h.gameOver /\ h.winner = Null)

\* the team selection of a mission runs out after two failed missions
C27_Witness ==
    /\ game.phase = "missionTeamSelection"
    /\ game.nominationTimeLeft = 0
    /\ game.failedMissions = 2
    /\ ~game.gameOver
    /\ tickRoom(game).g.gameOver

\* what the next-mission cycle makes of the state g, but for the counters
\* and the log of results
NextMissionCycle(g, h) ==
    LET N == NumPlayers(g)
        leader == (g.currentLeaderIndex + 1) % N
    IN  /\ h.currentMission = g.currentMission + 1
        /\ h.currentLeaderIndex = leader
        /\ Leaders(h) = {leader + 1}
        /\ \A i \in DOMAIN h.players :
              /\ ~h.players[i].nominated
              /\ ~h.players[i].voted
              /\ h.players[i].missionVote = Null
              /\ h.players[i].role = g.players[i].role
              /\ h.players[i].spyNumber = g.players[i].spyNumber
              /\ h.players[i].id = g.players[i].id
              /\ h.players[i].name = g.players[i].name
        /\ h.nominatedPlayers = {}
        /\ h.votes.names = <<>>
        /\ \A i \in DOMAIN h.players : h.votes.ballot[i] = NoKey
        /\ h.missionTeam = {}
        /\ \A i \in DOMAIN h.players : h.missionVotes[i] = NoKey
        /\ h.tieCandidates = {}
        /\ ~h.isTieBreakerVote
        /\ h.phase = "discussion"
        /\ h.currentPlayerIndex = leader
        /\ h.discussionTurnCount = 0
        /\ h.discussionTimeLeft = DISCUSSION_TIME
        /\ h.successfulMissions = g.successfulMissions

\* C28: the next-mission cycle increments currentMission by 1, sets the
\* leader to position (currentLeaderIndex + 1) mod N with exactly that
\* player flagged isLeader, clears every player's nominated, voted and
\* missionVote, empties nominatedPlayers, votes, missionTeam, missionVotes,
\* tieCandidates and isTieBreakerVote, and enters discussion with speaker =
\* new leader, discussionTurnCount = 0 and the full discussion time; it
\* leaves roles, successfulMissions, failedMissions and missionResults
\* unchanged.  The cycle runs on the nextMission action and, after the
\* failure has been recorded, on a timeout that is not the third failure.
C28_NextMissionCycle ==
    /\ (game.phase = "missionResults" /\ ~game.gameOver)
         => LET h == nextMissionAction(game, hostId).g
            IN  /\ NextMissionCycle(game, h)
                /\ h.failedMissions = game.failedMissions
                /\ h.missionResults = game.missionResults
    /\ (/\ game.phase = "missionTeamSelection"
         /\ game.nominationTimeLeft = 0
         /\ game.failedMissions + 1 < WIN_COUNT)
         => NextMissionCycle(game, tickRoom(game).g)

\* the second mission has been resolved by the ballots of its team under
\* the last leader of the roster: the next leader is the first
C28_Witness ==
    /\ game.phase = "missionResults"
    /\ ~game.gameOver
    /\ game.currentMission = 2
    /\ game.currentLeaderIndex = NumPlayers(game) - 1
    /\ game.missionTeam = MatchTeam
    /\ VotesCast(game) = 3
    /\ Leaders(nextMissionAction(game, hostId).g) = {1}

\* passTurn of the sender me passes the test of line 490
PassAccepted(g, me) ==
    /\ g.currentPlayerIndex + 1 \in 1..NumPlayers(g)
    /\ \/ g.players[g.currentPlayerIndex + 1].id = me
       \/ hostId = me

\* C29: in phase discussion or leaderDiscussion an accepted passTurn leaves
\* the state that a scheduler tick leaves when applied to the same state
\* with discussionTimeLeft at 0: same turn counter, speaker, phase, timers
\* and election result.
C29_PassTurnIsExpiredTick ==
    game.phase \in {"discussion", "leaderDiscussion"}
    => \A me \in Actors :
         PassAccepted(game, me)
         => passTurn(game, me).g =
              tickRoom([game EXCEPT !.discussionTimeLeft = 0]).g

\* the state left by the end of the speaker's turn: the scheduler tick on
\* the expired clock
EndOfTurn(g) == tickRoom([g EXCEPT !.discussionTimeLeft = 0]).g

\* C30: in each discussion or leaderDiscussion sub-phase the speakers are
\* the leader followed by the next players in roster order with
\* wrap-around, each of the N players holds the turn exactly once (the
\* speaker of turn k is the player k places after the leader, and the end
\* of a turn before the N-th hands the turn on within the phase),
\* discussionTurnCount stays below N while the phase lasts, and the end of
\* the N-th turn of leaderDiscussion enters missionTeamSelection with the
\* full nomination time.
C30_SpeakersInRosterOrder ==
    game.phase \in {"discussion", "leaderDiscussion"}
    => LET N == NumPlayers(game)
           h == EndOfTurn(game)
       IN  /\ game.discussionTurnCount \in 0..(N - 1)
           /\ game.currentLeaderIndex \in 0..(N - 1)
           /\ game.currentPlayerIndex =
                 (game.currentLeaderIndex + game.discussionTurnCount) % N
           /\ game.discussionTurnCount < N - 1
                => /\ h.phase = game.phase
                   /\ h.discussionTurnCount = game.discussionTurnCount + 1
                   /\ h.currentPlayerIndex = (game.currentPlayerIndex + 1) % N
           /\ (game.discussionTurnCount = N - 1
                /\ game.phase = "leaderDiscussion")
                => /\ h.phase = "missionTeamSelection"
                   /\ h.nominationTimeLeft = NOMINATION_TIME

\* the team members that have not cast their mission ballot
Pending(g) ==
    {i \in DOMAIN g.players :
        g.players[i].name \in g.missionTeam /\ g.players[i].missionVote = Null}

\* C31: in missionVoting the mission is resolved in exactly the step in
\* which the last team member who had not yet voted casts a ballot, and
\* never before: in missionVoting some team member has no ballot; a step
\* that leaves a team member without ballot keeps the phase missionVoting
\* and records no outcome; the step after which every team member has a
\* ballot records one outcome and enters missionResults.
C31_ResolvedByLastBallot ==
    [][game.phase = "missionVoting"
       => /\ Pending(game) # {}
          /\ Pending(game') # {}
               => /\ game'.phase = "missionVoting"
                  /\ game'.missionResults = game.missionResults
          /\ Pending(game') = {}
               => /\ game'.phase = "missionResults"
                  /\ Len(game'.missionResults) = Len(game.missionResults) + 1
                  /\ LastResult(game').mission = game.currentMission]_vars

\* the log h extends the log g: no entry of g is removed or altered
Extends(g, h) ==
    /\ Len(h) >= Len(g)
    /\ SubSeq(h, 1, Len(g)) = g

\* C32: missionResults is an append-only log: no tick or action removes or
\* alters an existing entry, its length always equals successfulMissions +
\* failedMissions, and it holds at most one outcome per mission index, in
\* increasing index order.
C32_ResultsAppendOnly ==
    /\ [](/\ Len(game.missionResults) =
               game.successfulMissions + game.failedMissions
           /\ \A i, j \in DOMAIN game.missionResults :
                 i < j => game.missionResults[i].mission
                            < game.missionResults[j].mission)
    /\ [][Extends(game.missionResults, game'.missionResults)]_vars

\* the timer that the tick counts down in the phase, and its value when
\* the phase is entered
Timers == {"discussionTimeLeft", "nominationTimeLeft", "tieTimeLeft"}

TimerOf(phase) ==
    IF phase \in {"discussion", "leaderDiscussion"} THEN "discussionTimeLeft"
    ELSE IF phase = "missionTeamSelection" THEN "nominationTimeLeft"
    ELSE "tieTimeLeft"

FullTime(g, phase) ==
    IF phase \in {"discussion", "leaderDiscussion"} THEN DISCUSSION_TIME
    ELSE IF phase = "missionTeamSelection" THEN NOMINATION_TIME
    ELSE TIE_TIME_PER_CANDIDATE * Cardinality(g.tieCandidates)

TimedPhases ==
    {"discussion", "leaderDiscussion", "missionTeamSelection", "tieDiscussion"}

\* the upper bound of the timer of the phase
FullConstant(g, phase) ==
    IF phase \in {"discussion", "leaderDiscussion"} THEN DISCUSSION_TIME
    ELSE IF phase = "missionTeamSelection" THEN NOMINATION_TIME
    ELSE TIE_TIME_PER_CANDIDATE * NumPlayers(g)

\* C33 as stated: each timer stays within its bounds in every reachable
\* state (discussionTimeLeft in 0..DISCUSSION_TIME, nominationTimeLeft in
\* 0..NOMINATION_TIME, tieTimeLeft in 0..TIE_TIME_PER_CANDIDATE * N), a tick
\* lowers only the timer of the current phase and by exactly 1, and each
\* timer is at its full constant, the upper bound, at the moment its phase
\* is entered.
C33_TimersFullConstant ==
    /\ [](/\ game.discussionTimeLeft \in 0..DISCUSSION_TIME
           /\ game.nominationTimeLeft \in 0..NOMINATION_TIME
           /\ game.tieTimeLeft
                 \in 0..(TIE_TIME_PER_CANDIDATE * NumPlayers(game))
           /\ LET h == tickRoom(game).g
              IN  \A t \in Timers :
                    h[t] < game[t]
                    => /\ game.phase \in TimedPhases
                       /\ t = TimerOf(game.phase)
                       /\ h[t] = game[t] - 1)
    /\ [][(game'.phase # game.phase /\ game'.phase \in TimedPhases)
           => game'[TimerOf(game'.phase)]
                = FullConstant(game', game'.phase)]_vars

\* C33, amended: each timer stays within its bounds in every reachable
\* state (discussionTimeLeft in 0..DISCUSSION_TIME, nominationTimeLeft in
\* 0..NOMINATION_TIME, tieTimeLeft in 0..TIE_TIME_PER_CANDIDATE * N), a tick
\* lowers only the timer of the current phase and by exactly 1, and at the
\* moment its phase is entered the discussion timer and the nomination
\* timer are at their full constant and the tie timer is at
\* TIE_TIME_PER_CANDIDATE times the number of tied candidates.
C33_TimersBounded ==
    /\ [](/\ game.discussionTimeLeft \in 0..DISCUSSION_TIME
           /\ game.nominationTimeLeft \in 0..NOMINATION_TIME
           /\ game.tieTimeLeft
                 \in 0..(TIE_TIME_PER_CANDIDATE * NumPlayers(game))
           /\ LET h == tickRoom(game).g
              IN  \A t \in Timers :
                    h[t] < game[t]
                    => /\ game.phase \in TimedPhases
                       /\ t = TimerOf(game.phase)
                       /\ h[t] = game[t] - 1)
    /\ [][(game'.phase # game.phase /\ game'.phase \in TimedPhases)
           => game'[TimerOf(game'.phase)] = FullTime(game', game'.phase)]_vars

\* a tie discussion of two candidates at its full time, which the tick
\* lowers by one
C33_Witness ==
    /\ game.phase = "tieDiscussion"
    /\ Cardinality(game.tieCandidates) = 2
    /\ game.tieTimeLeft = 2 * TIE_TIME_PER_CANDIDATE
    /\ tickRoom(game).g.tieTimeLeft = game.tieTimeLeft - 1
    /\ tickRoom(game).g.discussionTimeLeft = game.discussionTimeLeft

\* the rooms of both registries whose records differ
Touched(reg, after) ==
    {r \in DOMAIN reg \cap DOMAIN after : after[r] # reg[r]}

\* C34: matches are independent: a tick step or an action on one room's
\* match leaves the state of every other room's match unchanged, a room
\* removed from the registry is skipped by the next tick without error, and
\* the tick still processes all remaining matches (each running match of
\* the registry gets its own tick, whatever the other rooms are).
C34_RoomsIndependent ==
    /\ [](LET after == tickRooms(rooms)
          IN  /\ DOMAIN after = DOMAIN rooms
              /\ \A r \in DOMAIN rooms :
                    /\ after[r].players = rooms[r].players
                    /\ Skipped(rooms[r]) => after[r] = rooms[r]
                    /\ ~Skipped(rooms[r])
                         => /\ ~tickRoom(rooms[r].game).threw
                            /\ after[r].game = tickRoom(rooms[r].game).g)
    /\ [](\A r \in DOMAIN rooms : \A u \in rooms[r].players :
            /\ Touched(rooms, passTurnIn(rooms, r, u)) \subseteq {r}
            /\ DOMAIN passTurnIn(rooms, r, u) = DOMAIN rooms
            /\ Touched(rooms, leaveRoom(rooms, r, u)) \subseteq {r}
            /\ DOMAIN rooms \ {r} \subseteq DOMAIN leaveRoom(rooms, r, u))
    /\ [][\/ rooms' = tickRooms(rooms)
          \/ /\ Cardinality(Touched(rooms, rooms')) <= 1
             /\ DOMAIN rooms' \subseteq DOMAIN rooms
             /\ Cardinality(DOMAIN rooms \ DOMAIN rooms') <= 1
             /\ DOMAIN rooms' # DOMAIN rooms => Touched(rooms, rooms') = {}]_vars

\* the first room has been removed while its match was running, and the
\* tick still moves the match of the last room, which is under way
C34_Witness ==
    /\ "r1" \notin DOMAIN rooms
    /\ "r3" \in DOMAIN rooms
    /\ ~Skipped(rooms["r3"])
    /\ rooms["r3"].game.phase = "leaderDiscussion"
    /\ tickRooms(rooms)["r3"].game = tickRoom(rooms["r3"].game).g
    /\ tickRooms(rooms)["r3"].game # rooms["r3"].game
    /\ tickRooms(rooms)["r2"] = rooms["r2"]

\* the display names of the players of the match
PlayerNames(g) == {g.players[i].name : i \in DOMAIN g.players}

\* C35: nominatedPlayers, tieCandidates, missionTeam and the candidate
\* names stored in votes contain only display names of players of the
\* match, after any sequence of nominate, voteForLeader and
\* toggleTeamMember actions with arbitrary target strings.
C35_OnlyPlayerNames ==
    /\ game.nominatedPlayers \subseteq PlayerNames(game)
    /\ game.tieCandidates \subseteq PlayerNames(game)
    /\ game.missionTeam \subseteq PlayerNames(game)
    /\ ToSet(game.votes.names) \subseteq PlayerNames(game)
    /\ \A i \in DOMAIN game.votes.ballot :
          game.votes.ballot[i] \in PlayerNames(game) \cup {NoKey}

\* C36: in every reachable state currentLeaderIndex and currentPlayerIndex
\* are valid positions in 0..N-1, and whenever some player has isLeader =
\* true that player is the one at currentLeaderIndex.
C36_IndicesValid ==
    /\ game.currentLeaderIndex \in 0..(NumPlayers(game) - 1)
    /\ game.currentPlayerIndex \in 0..(NumPlayers(game) - 1)
    /\ Leaders(game) \subseteq {game.currentLeaderIndex + 1}

\* C37: the voting phase cannot get stuck: in every reachable state with
\* phase = voting at least one player still has voted = false, i.e. the
\* step in which the last player votes always leaves the voting phase.
C37_VotingNeverStuck ==
    game.phase = "voting"
    => \E i \in DOMAIN game.players : ~game.players[i].voted

\* C38: a leader elected by a vote is always one of the players that were
\* nominated in the preceding discussion: in the first voting round a
\* ballot can only count for a name in nominatedPlayers.  Stated on the
\* step that ends the vote: the player it makes the leader was nominated.
C38_ElectedWasNominated ==
    [][(game.phase = "voting" /\ game'.phase = "leaderDiscussion")
       => \A i \in Leaders(game') :
            game'.players[i].name \in game.nominatedPlayers]_vars

\* C39: every match terminates: under fair ticks and with players that
\* always eventually submit the action each untimed phase waits for
\* (confirmRole, voteForLeader, voteForMission, nextMission), the match
\* eventually reaches gameOver, after at most 5 recorded mission outcomes.
C39_MatchTerminates ==
    /\ <>game.gameOver
    /\ [][(~game.gameOver /\ game'.gameOver)
           => Len(game'.missionResults) <= 5]_vars

====
